---- MODULE Spec2Model ----
(***************************************************************************)
(* Model of helper_func/mux.py: the registry of live ffmpeg jobs           *)
(* (running_jobs), the two job runners softmux_vid / hardmux_vid, the      *)
(* stderr reader read_stderr with its line splitter readlines and the      *)
(* progress parser parse_progress.                                         *)
(*                                                                         *)
(* Bytes are integers 0..255; byte strings and decoded strings are         *)
(* sequences of them.  The specifications:                                 *)
(*   Spec      - one job (soft or hard) from call to end: runner, process, *)
(*               reader and waiter tasks, registry, notifier calls, clock; *)
(*   SpecFair  - Spec with the fairness the event loop gives its tasks;    *)
(*   SpecConc  - the two runners at the same time, in less detail;         *)
(*   SpecLines - readlines alone over every short byte stream under every  *)
(*               delivery (chunking and end-of-stream timing);             *)
(*   SpecParse - parse_progress alone over short lines;                    *)
(*   SpecArgs  - the argument vector hardmux_vid builds from a user's      *)
(*               settings.                                                 *)
(***************************************************************************)
EXTENDS Integers, Sequences, FiniteSets, TLC

\* ------------------------------------------------------------------------
\* Bounds of the model
\* ------------------------------------------------------------------------
\* number of write() calls a tool process makes on stderr before it exits
MaxWrites == 3

\* the same, for each of the two tool processes of SpecConc
ConcWrites == 1

\* length of the byte streams handed to readlines in SpecLines
MaxLen == 4

\* number of pieces the lines handed to parse_progress in SpecParse are
\* made of
MaxPieces == 4

\* largest elapsed time (in half seconds) seen by the progress throttle
MaxElapsed == 21

\* ------------------------------------------------------------------------
\* Program constants
\* ------------------------------------------------------------------------
CR == 13

LF == 10

\* stream.read(1024)
ReadSize == 1024

\* round(elapsed) % 5
Interval == 5

\* ------------------------------------------------------------------------
\* Byte strings used by the model
\* ------------------------------------------------------------------------
\* "fps=1\r"  : a progress line as ffmpeg overwrites it in place
ProgWrite == <<102, 112, 115, 61, 49, 13>>

\* "E\xff\n"  : an error line holding a byte that is not valid UTF-8
ErrWrite == <<69, 255, 10>>

\* the n-th write of a tool process on stderr: progress lines alternate
\* with error lines
Script(n) == IF n % 2 = 1 THEN ProgWrite ELSE ErrWrite

\* the bytes SpecLines builds its streams from: 'a', CR, LF
LineBytes == {97, CR, LF}

\* concurrent invocations: one of softmux_vid, one of hardmux_vid
Variant == [soft |-> "soft", hard |-> "hard"]

Runners == DOMAIN Variant

\* values uuid.uuid4().hex[:8] can take; two draws may coincide
JobIds == {"a", "b"}

\* the draws explored for runner r: identifiers are interchangeable, so the
\* draw of the first runner is fixed
IdsOf(r) == IF r = "soft" THEN {"a"} ELSE JobIds

\* vid_filename arguments
VidNames == {<<"m", ".", "p">>, <<".", "h">>}

\* exit codes a tool process ends with by itself
ExitCodes == {0, 2}

\* returncode of a process ended by a signal (terminate(): SIGTERM)
KilledCode == 0 - 15

Min(a, b) == IF a < b THEN a ELSE b

\* ------------------------------------------------------------------------
\* readlines: pattern = re.compile(br'[\r\n]+')
\* ------------------------------------------------------------------------
IsDelim(b) == b \in {CR, LF}

\* pattern.split(data): the pieces between maximal runs of CR/LF; a run at
\* the start or at the end of data gives an empty first or last piece.
PatternSplit(bytes) ==
    LET F[i \in 0..Len(bytes)] ==
            IF i = 0 THEN << <<>> >>
            ELSE LET prev == F[i - 1]
                     b    == bytes[i]
                 IN  IF IsDelim(b)
                     THEN IF i > 1 /\ IsDelim(bytes[i - 1])
                          THEN prev
                          ELSE Append(prev, <<>>)
                     ELSE [prev EXCEPT ![Len(prev)] = Append(@, b)]
    IN  F[Len(bytes)]

\* parts.pop(-1)
Last(s) == s[Len(s)]

Front(s) == SubSeq(s, 1, Len(s) - 1)

\* an end-of-stream test that looks at the flag only
eof_flag_only(eof, buf) == eof

\* StreamReader.at_eof(): feed_eof() was called and the buffer is empty
at_eof(eof, buf) == eof /\ buf = <<>>

\* what stream.read(n) returns from a non-empty buffer (or b'' at EOF)
ReadChunk(buf, n) == SubSeq(buf, 1, Min(Len(buf), n))

ReadRest(buf, n) == SubSeq(buf, Min(Len(buf), n) + 1, Len(buf))

\* ------------------------------------------------------------------------
\* decode('utf-8', errors='ignore') on the model's bytes: ASCII bytes decode
\* to themselves, a byte >= 0x80 that starts no valid sequence is dropped.
\* ------------------------------------------------------------------------
Decode(bytes) == SelectSeq(bytes, LAMBDA b : b < 128)

\* ------------------------------------------------------------------------
\* parse_progress:
\*   progress_pattern = (frame|fps|size|time|bitrate|speed)\s*=\s*(\S+)
\* ------------------------------------------------------------------------
FieldNames ==
    [ frame   |-> <<102, 114, 97, 109, 101>>,
      fps     |-> <<102, 112, 115>>,
      size    |-> <<115, 105, 122, 101>>,
      time    |-> <<116, 105, 109, 101>>,
      bitrate |-> <<98, 105, 116, 114, 97, 116, 101>>,
      speed   |-> <<115, 112, 101, 101, 100>> ]

\* \s on a str pattern, restricted to ASCII
IsSpace(c) == c \in {9, 10, 11, 12, 13, 28, 29, 30, 31, 32}

Equals == 61

\* does the field name f stand at position i of line
NameAt(line, i, f) ==
    LET n == FieldNames[f]
    IN  /\ i + Len(n) - 1 <= Len(line)
        /\ SubSeq(line, i, i + Len(n) - 1) = n

\* first position >= i that holds no whitespace (Len(line)+1 if none)
RECURSIVE SkipSpace(_, _)
SkipSpace(line, i) ==
    IF i <= Len(line) /\ IsSpace(line[i]) THEN SkipSpace(line, i + 1) ELSE i

\* first position >= i that holds whitespace (Len(line)+1 if none)
RECURSIVE SkipToken(_, _)
SkipToken(line, i) ==
    IF i <= Len(line) /\ ~IsSpace(line[i]) THEN SkipToken(line, i + 1) ELSE i

\* a match of the pattern starting at position i:
\* <<field, value, position after the match>>, or <<>> if there is none
MatchAt(line, i) ==
    LET fs == {f \in DOMAIN FieldNames : NameAt(line, i, f)}
    IN  IF fs = {} THEN <<>>
        ELSE LET f  == CHOOSE x \in fs : TRUE
                 e  == SkipSpace(line, i + Len(FieldNames[f]))
                 v  == IF e <= Len(line) /\ line[e] = Equals
                       THEN SkipSpace(line, e + 1) ELSE Len(line) + 1
                 z  == SkipToken(line, v)
             IN  IF v <= Len(line) /\ z > v
                 THEN <<f, SubSeq(line, v, z - 1), z>>
                 ELSE <<>>

\* progress_pattern.findall(line): the non-overlapping matches, left to right
RECURSIVE FindAll(_, _)
FindAll(line, i) ==
    IF i > Len(line) THEN <<>>
    ELSE LET m == MatchAt(line, i)
         IN  IF m = <<>> THEN FindAll(line, i + 1)
             ELSE << <<m[1], m[2]>> >> \o FindAll(line, m[3])

\* the dict comprehension keeping the first occurrence of a field
parse_progress_first(line) ==
    LET ms == FindAll(line, 1)
        ks == {ms[j][1] : j \in 1..Len(ms)}
    IN  [k \in ks |->
            ms[CHOOSE j \in 1..Len(ms) :
                  /\ ms[j][1] = k
                  /\ \A l \in 1..(j - 1) : ms[l][1] # k][2]]

\* {k: v for k, v in findall(line)}: the last occurrence of a field wins;
\* the empty mapping stands for None (items or None)
parse_progress(line) ==
    LET ms == FindAll(line, 1)
        ks == {ms[j][1] : j \in 1..Len(ms)}
    IN  [k \in ks |->
            ms[CHOOSE j \in 1..Len(ms) :
                  /\ ms[j][1] = k
                  /\ \A l \in (j + 1)..Len(ms) : ms[l][1] # k][2]]

NoProgress == [k \in {} |-> <<>>]

\* ------------------------------------------------------------------------
\* read_stderr: if round(elapsed) % 5 == 0
\* elapsed is given in half seconds h; Python's round() rounds a tie to
\* the even integer.
\* ------------------------------------------------------------------------
PyRound(h) ==
    LET q == h \div 2
    IN  IF h % 2 = 0 THEN q
        ELSE IF q % 2 = 0 THEN q ELSE q + 1

\* the throttle with elapsed truncated, int(elapsed), instead of rounded
ThrottleTruncates(h) == (h \div 2) % Interval = 0

ThrottleFires(h) == PyRound(h) % Interval = 0

\* ------------------------------------------------------------------------
\* os.path.splitext(vid_filename)[0] on a file name given as a sequence of
\* characters (no directory part): cut at the last dot unless only dots
\* precede it.
\* ------------------------------------------------------------------------
SplitextRoot(name) ==
    LET dots == {i \in 1..Len(name) : name[i] = "."}
    IN  IF dots = {} THEN name
        ELSE LET d == CHOOSE i \in dots : \A j \in dots : j <= i
             IN  IF \E j \in 1..(d - 1) : name[j] # "."
                 THEN SubSeq(name, 1, d - 1)
                 ELSE name

\* f"{base}_soft.mkv" / f"{base}_hard.mp4"
OutputName(kind, name) ==
    SplitextRoot(name) \o (IF kind = "soft" THEN <<"_soft.mkv">> ELSE <<"_hard.mp4">>)

\* ------------------------------------------------------------------------
\* State
\* ------------------------------------------------------------------------
VARIABLES
    running_jobs,   \* job_id -> [proc, tasks, type]; proc and tasks are named
                    \* by the runner invocation that created them
    rpc,            \* runner r: position in softmux_vid / hardmux_vid
    vid,            \* runner r: vid_filename
    job_id,         \* runner r: job_id ("" before line 85)
    result,         \* runner r: how the call ended
    err,            \* runner r: err, the bytes read after a failure
    pstate,         \* process of r: "none" | "running" | "exited"
    exitcode,       \* process of r: exit status, once exited
    written,        \* process of r: number of stderr writes made
    sbuf,           \* proc.stderr: bytes fed and not yet read
    seof,           \* proc.stderr: feed_eof() was called
    rdpc,           \* reader task of r: position in read_stderr / readlines
    data,           \* readlines: the bytearray data
    parts,          \* readlines: lines of the current split still to yield
    wdone,          \* waiter task of r is done
    remainAtExit,   \* history: stderr bytes unread when the process exited
    clock,          \* time.time() - start, in half seconds
    editFailed,     \* history: a msg.edit of the reader task of r has raised
    \* --- SpecLines ---
    lstream,        \* the whole byte stream the source will deliver
    lfed,           \* number of its bytes fed to the StreamReader
    lbuf,           \* StreamReader buffer
    leof,           \* feed_eof() was called
    ldata,          \* readlines: data
    lout,           \* the lines yielded so far
    lpc,            \* readlines: "check" | "read" | "done"
    \* --- SpecParse ---
    pline,          \* the line handed to parse_progress
    psnap,          \* what parse_progress returned
    ppc,            \* "call" | "done"
    \* --- SpecArgs ---
    cfg,            \* SettingsManager.get(user_id): the user's settings
    argv,           \* the arguments given to create_subprocess_exec
    apc             \* "call" | "done"

jobVars == <<running_jobs, rpc, vid, job_id, result, err, pstate, exitcode,
             written, sbuf, seof, rdpc, data, parts, wdone, remainAtExit,
             clock, editFailed>>

lineVars == <<lstream, lfed, lbuf, leof, ldata, lout, lpc>>

fnVars == <<pline, psnap, ppc, cfg, argv, apc>>

\* the variables of the specifications of single functions
sideVars == <<lineVars, fnVars>>

vars == <<jobVars, lineVars, fnVars>>

NoResult == [tag |-> "none", val |-> <<>>]

\* the initial state of the job variables: no runner was called yet
JobInit ==
    /\ running_jobs = [j \in {} |-> 0]
    /\ rpc = [r \in Runners |-> "idle"]
    /\ vid = [r \in Runners |-> <<>>]
    /\ job_id = [r \in Runners |-> ""]
    /\ result = [r \in Runners |-> NoResult]
    /\ err = [r \in Runners |-> <<>>]
    /\ pstate = [r \in Runners |-> "none"]
    /\ exitcode = [r \in Runners |-> 0]
    /\ written = [r \in Runners |-> 0]
    /\ sbuf = [r \in Runners |-> <<>>]
    /\ seof = [r \in Runners |-> FALSE]
    /\ rdpc = [r \in Runners |-> "none"]
    /\ data = [r \in Runners |-> <<>>]
    /\ parts = [r \in Runners |-> <<>>]
    /\ wdone = [r \in Runners |-> FALSE]
    /\ remainAtExit = [r \in Runners |-> <<>>]
    /\ clock = 0
    /\ editFailed = [r \in Runners |-> FALSE]

\* the line variables while SpecLines is not the specification
LineIdle ==
    /\ lstream = <<>>
    /\ lfed = 0
    /\ lbuf = <<>>
    /\ leof = FALSE
    /\ ldata = <<>>
    /\ lout = <<>>
    /\ lpc = "done"

\* the function variables while SpecParse / SpecArgs are not the specification
ParseIdle ==
    /\ pline = <<>>
    /\ psnap = <<>>
    /\ ppc = "done"

ArgsIdle ==
    /\ cfg = <<>>
    /\ argv = <<>>
    /\ apc = "done"

Init == JobInit /\ LineIdle /\ ParseIdle /\ ArgsIdle

\* ------------------------------------------------------------------------
\* The registry: running_jobs[job_id] = {...} and running_jobs.pop(job_id, None)
\* ------------------------------------------------------------------------
DictSet(d, k, v) == [x \in DOMAIN d \cup {k} |-> IF x = k THEN v ELSE d[x]]

DictPop(d, k) == [x \in DOMAIN d \ {k} |-> d[x]]

\* {'proc': proc, 'tasks': [reader, waiter], 'type': 'soft' | 'hard'}
Entry(r) == [proc |-> r, tasks |-> r, type |-> Variant[r]]

\* proc.returncode: None (<<>>) until the exit was observed
returncode(r) == IF wdone[r] THEN <<exitcode[r]>> ELSE <<>>

\* ------------------------------------------------------------------------
\* The tool process and the event loop's view of it
\* ------------------------------------------------------------------------
\* the process makes its next write on stderr; the loop feeds it to
\* proc.stderr
Write(r, quota) ==
    /\ pstate[r] = "running"
    /\ written[r] < quota
    /\ written' = [written EXCEPT ![r] = @ + 1]
    /\ sbuf' = [sbuf EXCEPT ![r] = @ \o Script(written[r] + 1)]
    /\ UNCHANGED <<running_jobs, rpc, vid, job_id, result, err, pstate,
                   exitcode, seof, rdpc, data, parts, wdone, remainAtExit,
                   clock, editFailed, sideVars>>

\* the process ends by itself with exit code c
Exit(r, c) ==
    /\ pstate[r] = "running"
    /\ pstate' = [pstate EXCEPT ![r] = "exited"]
    /\ exitcode' = [exitcode EXCEPT ![r] = c]
    /\ remainAtExit' = [remainAtExit EXCEPT ![r] = sbuf[r]]
    /\ UNCHANGED <<running_jobs, rpc, vid, job_id, result, err, written,
                   sbuf, seof, rdpc, data, parts, wdone,
                   clock, editFailed, sideVars>>

\* the stderr pipe of the exited process is closed: feed_eof()
FeedEof(r) ==
    /\ pstate[r] = "exited"
    /\ ~seof[r]
    /\ seof' = [seof EXCEPT ![r] = TRUE]
    /\ UNCHANGED <<running_jobs, rpc, vid, job_id, result, err, pstate,
                   exitcode, written, sbuf, rdpc, data, parts, wdone,
                   remainAtExit,
                   clock, editFailed, sideVars>>

\* waiter = create_task(proc.wait()): the exit is observed, proc.returncode
\* is set and the waiter task completes
WaiterDone(r) ==
    /\ pstate[r] = "exited"
    /\ ~wdone[r]
    /\ wdone' = [wdone EXCEPT ![r] = TRUE]
    /\ UNCHANGED <<running_jobs, rpc, vid, job_id, result, err, pstate,
                   exitcode, written, sbuf, seof, rdpc, data, parts,
                   remainAtExit,
                   clock, editFailed, sideVars>>

\* the external cancellation: look the id up in running_jobs and terminate
\* the process of the entry found; terminating an exited process does nothing
Cancel(id) ==
    /\ id \in DOMAIN running_jobs
    /\ LET p == running_jobs[id].proc
       IN  IF pstate[p] = "running"
           THEN /\ pstate' = [pstate EXCEPT ![p] = "exited"]
                /\ exitcode' = [exitcode EXCEPT ![p] = KilledCode]
                /\ remainAtExit' = [remainAtExit EXCEPT ![p] = sbuf[p]]
           ELSE UNCHANGED <<pstate, exitcode, remainAtExit>>
    /\ UNCHANGED <<running_jobs, rpc, vid, job_id, result, err, written,
                   sbuf, seof, rdpc, data, parts, wdone,
                   clock, editFailed, sideVars>>

\* ------------------------------------------------------------------------
\* The reader task: read_stderr over readlines(process.stderr)
\* ------------------------------------------------------------------------
\* what the reader does once a line is dealt with: take the next line of
\* the split, or go on to stream.read(1024)
AfterLine(rest) == IF rest = <<>> THEN "read" ELSE "line"

\* while not stream.at_eof(): parts = pattern.split(data);
\* data[:] = parts.pop(-1); for line in parts: yield line
RCheck(r) ==
    /\ rdpc[r] = "check"
    /\ IF at_eof(seof[r], sbuf[r])
       THEN /\ rdpc' = [rdpc EXCEPT ![r] = "done"]
            /\ UNCHANGED <<data, parts>>
       ELSE LET ps == PatternSplit(data[r])
            IN  /\ data' = [data EXCEPT ![r] = Last(ps)]
                /\ parts' = [parts EXCEPT ![r] = Front(ps)]
                /\ rdpc' = [rdpc EXCEPT ![r] = AfterLine(Front(ps))]
    /\ UNCHANGED <<running_jobs, rpc, vid, job_id, result, err, pstate,
                   exitcode, written, sbuf, seof, wdone, remainAtExit,
                   clock, editFailed, sideVars>>

\* data.extend(await stream.read(1024)): waits for data or end of stream
RRead(r) ==
    /\ rdpc[r] = "read"
    /\ sbuf[r] # <<>> \/ seof[r]
    /\ data' = [data EXCEPT ![r] = @ \o ReadChunk(sbuf[r], ReadSize)]
    /\ sbuf' = [sbuf EXCEPT ![r] = ReadRest(@, ReadSize)]
    /\ rdpc' = [rdpc EXCEPT ![r] = "check"]
    /\ UNCHANGED <<running_jobs, rpc, vid, job_id, result, err, pstate,
                   exitcode, written, seof, parts, wdone, remainAtExit,
                   clock, editFailed, sideVars>>

\* half a second passes.  The clock is read at one place only, line 48 of
\* read_stderr, so it is advanced where a reader is about to read it.
Tick ==
    /\ \E r \in Runners : rdpc[r] = "line"
    /\ clock < MaxElapsed
    /\ clock' = clock + 1
    /\ UNCHANGED <<running_jobs, rpc, vid, job_id, result, err, pstate,
                   exitcode, written, sbuf, seof, rdpc, data, parts, wdone,
                   remainAtExit, editFailed, sideVars>>

\* the body of "async for raw in readlines(...)" for one line: decode,
\* parse, elapsed = time.time() - start, and await msg.edit if the throttle
\* fires
RLine(r) ==
    /\ rdpc[r] = "line"
    /\ LET line == Decode(Head(parts[r]))
           prog == parse_progress(line)
           rest == Tail(parts[r])
       IN  /\ parts' = [parts EXCEPT ![r] = rest]
           /\ rdpc' = [rdpc EXCEPT ![r] =
                          IF prog # NoProgress /\ ThrottleFires(clock)
                          THEN "edit" ELSE AfterLine(rest)]
    /\ UNCHANGED <<running_jobs, rpc, vid, job_id, result, err, pstate,
                   exitcode, written, sbuf, seof, data, wdone, remainAtExit,
                   clock, editFailed, sideVars>>

\* try: await msg.edit(text) except: pass -- the edit returns or raises,
\* and the loop goes on either way
REditDone(r, ok) ==
    /\ rdpc[r] = "edit"
    /\ rdpc' = [rdpc EXCEPT ![r] = AfterLine(parts[r])]
    /\ editFailed' = [editFailed EXCEPT ![r] = @ \/ ~ok]
    /\ UNCHANGED <<running_jobs, rpc, vid, job_id, result, err, pstate,
                   exitcode, written, sbuf, seof, data, parts, wdone,
                   remainAtExit, clock, sideVars>>

\* ------------------------------------------------------------------------
\* The job runners softmux_vid and hardmux_vid (the same steps; they differ
\* in the tool's arguments, the 'type' of the entry and the output name)
\* ------------------------------------------------------------------------
\* the call ended by an exception raised by the await named by at
Raised(at) == [tag |-> "exception", val |-> <<at>>]

\* the call, up to "await asyncio.create_subprocess_exec(...)"
Call(r, v) ==
    /\ rpc[r] = "idle"
    /\ rpc' = [rpc EXCEPT ![r] = "spawn"]
    /\ vid' = [vid EXCEPT ![r] = v]
    /\ UNCHANGED <<running_jobs, job_id, result, err, pstate, exitcode,
                   written, sbuf, seof, rdpc, data, parts, wdone,
                   remainAtExit,
                   clock, editFailed, sideVars>>

\* create_subprocess_exec raises (the tool cannot be started)
SpawnFail(r) ==
    /\ rpc[r] = "spawn"
    /\ rpc' = [rpc EXCEPT ![r] = "raised"]
    /\ result' = [result EXCEPT ![r] = Raised("spawn")]
    /\ UNCHANGED <<running_jobs, vid, job_id, err, pstate, exitcode, written,
                   sbuf, seof, rdpc, data, parts, wdone, remainAtExit,
                   clock, editFailed, sideVars>>

\* the same steps without running_jobs[job_id] = {...}
RegisterUnlisted(r, id) ==
    /\ rpc[r] = "spawn"
    /\ pstate' = [pstate EXCEPT ![r] = "running"]
    /\ job_id' = [job_id EXCEPT ![r] = id]
    /\ rdpc' = [rdpc EXCEPT ![r] = "check"]
    /\ rpc' = [rpc EXCEPT ![r] = "announce"]
    /\ UNCHANGED <<running_jobs, vid, result, err, exitcode, written, sbuf,
                   seof, data, parts, wdone, remainAtExit, clock, editFailed,
                   sideVars>>

\* the process runs; job_id = uuid4().hex[:8]; the two tasks are created;
\* running_jobs[job_id] = {...}; the announcing msg.edit is awaited
Register(r, id) ==
    /\ rpc[r] = "spawn"
    /\ pstate' = [pstate EXCEPT ![r] = "running"]
    /\ job_id' = [job_id EXCEPT ![r] = id]
    /\ rdpc' = [rdpc EXCEPT ![r] = "check"]
    /\ running_jobs' = DictSet(running_jobs, id, Entry(r))
    /\ rpc' = [rpc EXCEPT ![r] = "announce"]
    /\ UNCHANGED <<vid, result, err, exitcode, written, sbuf, seof, data,
                   parts, wdone, remainAtExit,
                   clock, editFailed, sideVars>>

\* the announcing msg.edit returns, or raises out of the runner
AnnounceDone(r, ok) ==
    /\ rpc[r] = "announce"
    /\ rpc' = [rpc EXCEPT ![r] = IF ok THEN "wait" ELSE "raised"]
    /\ result' = [result EXCEPT ![r] = IF ok THEN @ ELSE Raised("announce")]
    /\ UNCHANGED <<running_jobs, vid, job_id, err, pstate, exitcode, written,
                   sbuf, seof, rdpc, data, parts, wdone, remainAtExit,
                   clock, editFailed, sideVars>>

\* asyncio.wait returning as soon as one of the two tasks is done
TasksDoneAny(r) == rdpc[r] = "done" \/ wdone[r]

\* await asyncio.wait([reader, waiter]) returns (ALL_COMPLETED)
TasksDone(r) == rdpc[r] = "done" /\ wdone[r]

\* asyncio.wait returns; running_jobs.pop(job_id, None);
\* if proc.returncode == 0: the success msg.edit is awaited,
\* else: err = await proc.stderr.read() is awaited
Join(r) ==
    /\ rpc[r] = "wait"
    /\ TasksDone(r)
    /\ running_jobs' = DictPop(running_jobs, job_id[r])
    /\ rpc' = [rpc EXCEPT ![r] =
                  IF returncode(r) = <<0>> THEN "success_edit" ELSE "read_err"]
    /\ UNCHANGED <<vid, job_id, result, err, pstate, exitcode, written, sbuf,
                   seof, rdpc, data, parts, wdone, remainAtExit,
                   clock, editFailed, sideVars>>

\* the success msg.edit returns (then asyncio.sleep(2)), or raises
SuccessDone(r, ok) ==
    /\ rpc[r] = "success_edit"
    /\ rpc' = [rpc EXCEPT ![r] = IF ok THEN "sleep" ELSE "raised"]
    /\ result' = [result EXCEPT ![r] = IF ok THEN @ ELSE Raised("success")]
    /\ UNCHANGED <<running_jobs, vid, job_id, err, pstate, exitcode, written,
                   sbuf, seof, rdpc, data, parts, wdone, remainAtExit,
                   clock, editFailed, sideVars>>

\* asyncio.sleep(2) is over: return output
SleepDone(r) ==
    /\ rpc[r] = "sleep"
    /\ rpc' = [rpc EXCEPT ![r] = "returned"]
    /\ result' = [result EXCEPT ![r] =
                     [tag |-> "value", val |-> OutputName(Variant[r], vid[r])]]
    /\ UNCHANGED <<running_jobs, vid, job_id, err, pstate, exitcode, written,
                   sbuf, seof, rdpc, data, parts, wdone, remainAtExit,
                   clock, editFailed, sideVars>>

\* err = await proc.stderr.read(): everything up to end of stream; then the
\* failure msg.edit showing err.decode(errors='ignore') is awaited
ReadErr(r) ==
    /\ rpc[r] = "read_err"
    /\ seof[r]
    /\ err' = [err EXCEPT ![r] = sbuf[r]]
    /\ sbuf' = [sbuf EXCEPT ![r] = <<>>]
    /\ rpc' = [rpc EXCEPT ![r] = "fail_edit"]
    /\ UNCHANGED <<running_jobs, vid, job_id, result, pstate, exitcode,
                   written, seof, rdpc, data, parts, wdone, remainAtExit,
                   clock, editFailed, sideVars>>

\* the failure msg.edit returns (return False), or raises
FailDone(r, ok) ==
    /\ rpc[r] = "fail_edit"
    /\ rpc' = [rpc EXCEPT ![r] = IF ok THEN "returned" ELSE "raised"]
    /\ result' = [result EXCEPT ![r] =
                     IF ok THEN [tag |-> "false", val |-> <<>>]
                     ELSE Raised("failure")]
    /\ UNCHANGED <<running_jobs, vid, job_id, err, pstate, exitcode, written,
                   sbuf, seof, rdpc, data, parts, wdone, remainAtExit,
                   clock, editFailed, sideVars>>

\* a call made while no other runner was ever called
CallAlone(r, v) ==
    /\ \A q \in Runners \ {r} : rpc[q] = "idle"
    /\ Call(r, v)

\* Spec: one job, soft or hard, from call to end: the runner is called
\* alone, with any name, its tool making at most MaxWrites writes, the
\* clock running from start (line 64)
Next ==
    \/ \E r \in Runners, v \in VidNames : CallAlone(r, v)
    \/ \E r \in Runners : SpawnFail(r)
    \/ \E r \in Runners : \E id \in IdsOf(r) : Register(r, id)
    \/ \E r \in Runners, ok \in BOOLEAN : AnnounceDone(r, ok)
    \/ \E r \in Runners : Join(r)
    \/ \E r \in Runners, ok \in BOOLEAN : SuccessDone(r, ok)
    \/ \E r \in Runners : SleepDone(r)
    \/ \E r \in Runners : ReadErr(r)
    \/ \E r \in Runners, ok \in BOOLEAN : FailDone(r, ok)
    \/ \E r \in Runners : Write(r, MaxWrites)
    \/ \E r \in Runners, c \in ExitCodes : Exit(r, c)
    \/ \E r \in Runners : FeedEof(r)
    \/ \E r \in Runners : WaiterDone(r)
    \/ \E id \in JobIds : Cancel(id)
    \/ \E r \in Runners : RCheck(r)
    \/ \E r \in Runners : RRead(r)
    \/ Tick
    \/ \E r \in Runners : RLine(r)
    \/ \E r \in Runners, ok \in BOOLEAN : REditDone(r, ok)

Spec == Init /\ [][Next]_vars

\* SpecFair: Spec with the progress its environment gives the job.  The
\* event loop runs every task that is ready (the runner after an await has
\* completed, the reader, the waiter), the closed pipe of an exited process
\* reaches end of stream, and an awaited msg.edit ends, by returning or by
\* raising.  Nothing obliges the tool to write or to exit, the user to
\* cancel, or time to be read.
Fairness ==
    \A r \in Runners :
        /\ WF_vars(\E ok \in BOOLEAN : AnnounceDone(r, ok))
        /\ WF_vars(Join(r))
        /\ WF_vars(\E ok \in BOOLEAN : SuccessDone(r, ok))
        /\ WF_vars(SleepDone(r))
        /\ WF_vars(ReadErr(r))
        /\ WF_vars(\E ok \in BOOLEAN : FailDone(r, ok))
        /\ WF_vars(FeedEof(r))
        /\ WF_vars(WaiterDone(r))
        /\ WF_vars(RCheck(r))
        /\ WF_vars(RRead(r))
        /\ WF_vars(RLine(r))
        /\ WF_vars(\E ok \in BOOLEAN : REditDone(r, ok))

SpecFair == Spec /\ Fairness

\* SpecConc: the two runners at the same time, on one file name, each tool
\* making at most one write, within the first quarter second after start
\* (the clock stands at 0) and with every progress edit succeeding (a
\* failing one leaves the same job state, see REditDone)
NextConc ==
    \/ \E r \in Runners : Call(r, <<"m", ".", "p">>)
    \/ \E r \in Runners : SpawnFail(r)
    \/ \E r \in Runners : \E id \in IdsOf(r) : Register(r, id)
    \/ \E r \in Runners, ok \in BOOLEAN : AnnounceDone(r, ok)
    \/ \E r \in Runners : Join(r)
    \/ \E r \in Runners, ok \in BOOLEAN : SuccessDone(r, ok)
    \/ \E r \in Runners : SleepDone(r)
    \/ \E r \in Runners : ReadErr(r)
    \/ \E r \in Runners, ok \in BOOLEAN : FailDone(r, ok)
    \/ \E r \in Runners : Write(r, ConcWrites)
    \/ \E r \in Runners, c \in ExitCodes : Exit(r, c)
    \/ \E r \in Runners : FeedEof(r)
    \/ \E r \in Runners : WaiterDone(r)
    \/ \E id \in JobIds : Cancel(id)
    \/ \E r \in Runners : RCheck(r)
    \/ \E r \in Runners : RRead(r)
    \/ \E r \in Runners : RLine(r)
    \/ \E r \in Runners : REditDone(r, TRUE)

SpecConc == Init /\ [][NextConc]_vars

\* ------------------------------------------------------------------------
\* SpecLines: readlines(stream) alone.  The source delivers lstream in
\* chunks of any sizes and signals the end of the stream at any moment
\* after the last chunk; out collects what the generator yields.
\* ------------------------------------------------------------------------
RECURSIVE Streams(_)
Streams(n) ==
    IF n = 0 THEN {<<>>}
    ELSE LET S == Streams(n - 1)
         IN  S \cup {Append(x, b) : x \in {y \in S : Len(y) = n - 1}, b \in LineBytes}

InitLines ==
    /\ JobInit /\ ParseIdle /\ ArgsIdle
    /\ lstream \in Streams(MaxLen)
    /\ lfed = 0
    /\ lbuf = <<>>
    /\ leof = FALSE
    /\ ldata = <<>>
    /\ lout = <<>>
    /\ lpc = "check"

\* the transport feeds the next k bytes: feed_data()
LFeed(k) ==
    /\ lfed + k <= Len(lstream)
    /\ lbuf' = lbuf \o SubSeq(lstream, lfed + 1, lfed + k)
    /\ lfed' = lfed + k
    /\ UNCHANGED <<lstream, leof, ldata, lout, lpc, jobVars, fnVars>>

\* the source is exhausted: feed_eof()
LFeedEof ==
    /\ lfed = Len(lstream)
    /\ ~leof
    /\ leof' = TRUE
    /\ UNCHANGED <<lstream, lfed, lbuf, ldata, lout, lpc, jobVars, fnVars>>

\* while not stream.at_eof(): parts = pattern.split(data);
\* data[:] = parts.pop(-1); for line in parts: yield line
LCheck ==
    /\ lpc = "check"
    /\ IF at_eof(leof, lbuf)
       THEN /\ lpc' = "done"
            /\ UNCHANGED <<ldata, lout>>
       ELSE LET ps == PatternSplit(ldata)
            IN  /\ ldata' = Last(ps)
                /\ lout' = lout \o Front(ps)
                /\ lpc' = "read"
    /\ UNCHANGED <<lstream, lfed, lbuf, leof, jobVars, fnVars>>

\* data.extend(await stream.read(1024))
LRead ==
    /\ lpc = "read"
    /\ lbuf # <<>> \/ leof
    /\ ldata' = ldata \o ReadChunk(lbuf, ReadSize)
    /\ lbuf' = ReadRest(lbuf, ReadSize)
    /\ lpc' = "check"
    /\ UNCHANGED <<lstream, lfed, leof, lout, jobVars, fnVars>>

NextLines ==
    \/ \E k \in 1..MaxLen : LFeed(k)
    \/ LFeedEof
    \/ LCheck
    \/ LRead

SpecLines == InitLines /\ [][NextLines]_vars

\* ------------------------------------------------------------------------
\* SpecParse: parse_progress(line) alone, over the lines made of at most
\* MaxPieces of the pieces below.
\* ------------------------------------------------------------------------
\* "fps", "=", " ", "1", "time=2", "fps=9 "
Pieces ==
    { FieldNames.fps, <<Equals>>, <<32>>, <<49>>,
      FieldNames.time \o <<Equals, 50>>,
      FieldNames.fps \o <<Equals, 57, 32>> }

RECURSIVE PieceLines(_)
PieceLines(n) ==
    IF n = 0 THEN {<<>>}
    ELSE LET S == PieceLines(n - 1)
         IN  S \cup {x \o p : x \in S, p \in Pieces}

InitParse ==
    /\ JobInit /\ LineIdle /\ ArgsIdle
    /\ pline \in PieceLines(MaxPieces)
    /\ psnap = <<>>
    /\ ppc = "call"

\* the call parse_progress(line) and its return value
ParseCall ==
    /\ ppc = "call"
    /\ psnap' = parse_progress(pline)
    /\ ppc' = "done"
    /\ UNCHANGED <<pline, cfg, argv, apc, jobVars, lineVars>>

NextParse == ParseCall

SpecParse == InitParse /\ [][NextParse]_vars

\* ------------------------------------------------------------------------
\* SpecArgs: the arguments hardmux_vid gives to create_subprocess_exec, for
\* every configuration SettingsManager.get may return.  A string built from
\* parts (an f-string, a join, a path) is the sequence of its parts, so
\* every argument is a sequence of strings.
\* ------------------------------------------------------------------------
SettingKeys == {"resolution", "fps", "codec", "crf", "preset"}

\* the values a user may have stored
SettingValues ==
    [ resolution |-> {"original", "1280:720"},
      fps        |-> {"original", "30"},
      codec      |-> {"original", "libx265"},
      crf        |-> {"23"},
      preset     |-> {"slow"} ]

\* the dicts over some of the keys
Configs ==
    UNION { {c \in [K -> UNION {SettingValues[k] : k \in SettingKeys}] :
                \A k \in K : c[k] \in SettingValues[k]} :
            K \in SUBSET SettingKeys }

\* cfg.get(key, default)
Get(c, key, default) == IF key \in DOMAIN c THEN c[key] ELSE default

\* os.path.join(Config.DOWNLOAD_DIR, name)
PathJoin(name) == <<"DOWNLOAD_DIR", "/">> \o name

\* the sub_filename argument
SubName == <<"s", ".", "a">>

\* the filter list with the tests for 'original' left out
vf_unconditional(c) ==
    << <<"subtitles=">> \o PathJoin(SubName),
       <<"scale=", Get(c, "resolution", "1920:1080")>>,
       <<"fps=", Get(c, "fps", "original")>> >>

\* vf = [f"subtitles={sub_path}"]; vf.append(f"scale={res}") and
\* vf.append(f"fps={fps}") unless the value is 'original'
vf(c) ==
    LET res == Get(c, "resolution", "1920:1080")
        fps == Get(c, "fps", "original")
    IN  << <<"subtitles=">> \o PathJoin(SubName) >>
        \o (IF res # "original" THEN << <<"scale=", res>> >> ELSE <<>>)
        \o (IF fps # "original" THEN << <<"fps=", fps>> >> ELSE <<>>)

\* ",".join(list)
RECURSIVE CommaJoin(_)
CommaJoin(list) ==
    IF list = <<>> THEN <<>>
    ELSE IF Len(list) = 1 THEN list[1]
    ELSE list[1] \o <<",">> \o CommaJoin(Tail(list))

\* the positional arguments of create_subprocess_exec in hardmux_vid
HardmuxArgs(c, name) ==
    << <<"ffmpeg">>, <<"-hide_banner">>,
       <<"-i">>, PathJoin(name),
       <<"-vf">>, CommaJoin(vf(c)),
       <<"-c:v">>, <<Get(c, "codec", "libx264")>>,
       <<"-preset">>, <<Get(c, "preset", "faster")>>,
       <<"-crf">>, <<Get(c, "crf", "27")>>,
       <<"-map">>, <<"0:v:0">>,
       <<"-map">>, <<"0:a:0?">>,
       <<"-c:a">>, <<"copy">>,
       <<"-y">>, PathJoin(OutputName("hard", name)) >>

InitArgs ==
    /\ JobInit /\ LineIdle /\ ParseIdle
    /\ cfg \in Configs
    /\ argv = <<>>
    /\ apc = "call"

\* hardmux_vid, from the call to the arguments of create_subprocess_exec
BuildArgs(name) ==
    /\ apc = "call"
    /\ argv' = HardmuxArgs(cfg, name)
    /\ apc' = "done"
    /\ UNCHANGED <<cfg, pline, psnap, ppc, jobVars, lineVars>>

NextArgs == \E name \in VidNames : BuildArgs(name)

SpecArgs == InitArgs /\ [][NextArgs]_vars

\* ------------------------------------------------------------------------
\* Properties
\* ------------------------------------------------------------------------
\* the job of runner r exists: its process was started and it was registered
HasJob(r) == pstate[r] # "none"

\* both background activities of r's job have completed
BothDone(r) == rdpc[r] = "done" /\ wdone[r]

\* lookup(id) finds the entry runner r inserted
FindsOwn(r) ==
    /\ job_id[r] \in DOMAIN running_jobs
    /\ running_jobs[job_id[r]] = Entry(r)

\* the runner has gone on past asyncio.wait and the pop
PastJoin(r) ==
    \/ rpc[r] \in {"success_edit", "sleep", "read_err", "fail_edit", "returned"}
    \/ rpc[r] = "raised" /\ result[r].val \in {<<"success">>, <<"failure">>}

\* the runner has ended: it returned or raised
Ended(r) == rpc[r] \in {"returned", "raised"}

\* the failure report was issued (its msg.edit was called)
FailureReported(r) ==
    \/ rpc[r] = "fail_edit"
    \/ rpc[r] = "returned" /\ result[r].tag = "false"
    \/ rpc[r] = "raised" /\ result[r].val = <<"failure">>

\* C1: from its registration until both of its activities have completed,
\* a lookup of a job's identifier finds that job's own entry; once both have
\* completed and the runner has gone on, a lookup of it finds nothing.
C1_LookupWhileRunning ==
    \A r \in Runners :
        /\ (HasJob(r) /\ ~BothDone(r)) => FindsOwn(r)
        /\ (HasJob(r) /\ PastJoin(r)) => job_id[r] \notin DOMAIN running_jobs

\* C2: running_jobs never holds an entry for a job whose process has exited
\* and whose runner has ended, whichever notifier calls failed.
C2_NoEntryAfterEnd ==
    \A r \in Runners :
        (pstate[r] = "exited" /\ Ended(r)) =>
            \A id \in DOMAIN running_jobs : running_jobs[id].proc # r

\* C3: a runner that has observed the exit of its process ends by returning
\* the derived output name if and only if the exit code is zero, and by
\* returning False, not by raising, on every other exit code.
C3_OutputIffExitZero ==
    \A r \in Runners :
        (Ended(r) /\ PastJoin(r)) =>
            /\ exitcode[r] = 0 <=>
                  result[r] = [tag |-> "value", val |-> OutputName(Variant[r], vid[r])]
            /\ exitcode[r] # 0 => result[r].tag = "false"

\* C4: the runner goes past asyncio.wait (unregisters, reports an outcome)
\* only when both the reader and the waiter have completed; while one of
\* them has not, the job stays registered and the runner has no outcome.
C4_JoinWaitsForBoth ==
    \A r \in Runners :
        /\ PastJoin(r) => (rdpc[r] = "done" /\ wdone[r])
        /\ (HasJob(r) /\ ~(rdpc[r] = "done" /\ wdone[r])) =>
              /\ FindsOwn(r)
              /\ result[r].tag \notin {"value", "false"}

\* C4 witness: the reader alone has completed, and the runner still waits
\* with the job registered
C4_OnlyReaderDone ==
    \E r \in Runners :
        rpc[r] = "wait" /\ rdpc[r] = "done" /\ ~wdone[r] /\ FindsOwn(r)

\* C5: the failure report of a job whose process exited with a non-zero code
\* shows, decoded, the stderr output that was still unread when the process
\* exited.
C5_FailureCarriesStderr ==
    \A r \in Runners :
        FailureReported(r) => Decode(err[r]) = Decode(remainAtExit[r])

\* C6: a runner that has observed the exit of a process ended by the
\* external terminate() ends Failed: it returns False, never the output
\* name and never an exception, and its entry is gone.
C6_CancelEndsFailed ==
    \A r \in Runners :
        (exitcode[r] = KilledCode /\ Ended(r) /\ PastJoin(r)) =>
            /\ result[r].tag = "false"
            /\ \A id \in DOMAIN running_jobs : running_jobs[id].proc # r

\* C7: two jobs that are live at the same time never share an identifier,
\* and the entry of a live job is never replaced by another job's
\* registration.
C7_NoSharedIdentifier ==
    \A r \in Runners : \A q \in Runners \ {r} :
        (rpc[r] \in {"announce", "wait"} /\ rpc[q] \in {"announce", "wait"}) =>
            /\ job_id[r] # job_id[q]
            /\ FindsOwn(r)

\* C8: no step of one runner (its register or its unregister) changes or
\* removes the registry entry of another live job.
C8_OthersEntryUntouched ==
    [][\A q \in Runners :
          (rpc[q] \in {"announce", "wait"} /\ rpc'[q] = rpc[q] /\ FindsOwn(q)) =>
              /\ job_id[q] \in DOMAIN running_jobs'
              /\ running_jobs'[job_id[q]] = running_jobs[job_id[q]]]_vars

\* C9: no failure of a msg.edit call ends a runner by an exception: a
\* runner raises only when the tool could not be started.
C9_EditFailureSwallowed ==
    \A r \in Runners :
        result[r].tag = "exception" => result[r].val = <<"spawn">>

\* the terminated lines of a stream: its maximal runs of bytes other than
\* CR and LF that a CR or LF follows, in order
TermLines(s) ==
    LET starts == {i \in 1..Len(s) :
                      ~IsDelim(s[i]) /\ (i = 1 \/ IsDelim(s[i - 1]))}
        End(i) == CHOOSE j \in i..Len(s) :
                      /\ \A k \in i..j : ~IsDelim(s[k])
                      /\ j = Len(s) \/ IsDelim(s[j + 1])
        T == {i \in starts : End(i) < Len(s)}
        Nth(k) == CHOOSE i \in T : Cardinality({j \in T : j < i}) = k - 1
    IN  [k \in 1..Cardinality(T) |-> SubSeq(s, Nth(k), End(Nth(k)))]

\* C10: when readlines ends, the lines it yielded (empty ones set aside)
\* are, in order, exactly the terminated lines of the stream, however the
\* stream was delivered.
C10_YieldsTerminatedLines ==
    lpc = "done" =>
        SelectSeq(lout, LAMBDA l : l # <<>>) = TermLines(lstream)

\* C11: a run of CR/LF bytes is one delimiter however it is cut by the
\* reads: readlines yields an empty line only for a stream that starts with
\* a delimiter (the empty piece before it, which every chunking yields
\* first), and never an extra empty line inside the stream.
C11_NoExtraEmptyLine ==
    \A i \in 1..Len(lout) :
        lout[i] = <<>> => (i = 1 /\ lstream # <<>> /\ IsDelim(lstream[1]))

\* the whole seconds nearest to h half seconds: one, or two when h lies
\* half way between them
NearestSeconds(h) == {s \in 0..h : 2 * s - h \in {0 - 1, 0, 1}}

\* h half seconds rounded to the nearest second, the even one of two
RoundedSecond(h) ==
    CHOOSE s \in NearestSeconds(h) :
        Cardinality(NearestSeconds(h)) = 2 => s % 2 = 0

\* C12: the reader awaits msg.edit for a line if and only if the line
\* yields a progress snapshot and the elapsed time, rounded to the nearest
\* second, is a multiple of 5; this holds for every line, so every progress
\* line read in such a second is notified, not only the first.
C12_ThrottleEveryFifthSecond ==
    [][\A r \in Runners :
          (rdpc[r] = "line" /\ parts'[r] # parts[r]) =>
              (rdpc'[r] = "edit" <=>
                  /\ parse_progress(Decode(Head(parts[r]))) # NoProgress
                  /\ RoundedSecond(clock) % 5 = 0)]_vars

\* C12 witness: a progress edit is in flight at 10 s, after an earlier
\* progress edit of the same job (one that raised)
C12_FiresAgainAtTen ==
    \E r \in Runners :
        rdpc[r] = "edit" /\ RoundedSecond(clock) = 10 /\ editFailed[r]

\* field f occurs at position i of line as field=value: its name, then
\* '=' with any whitespace around it, then a character that is no
\* whitespace, at position v
ValueAt(line, i, f, v) ==
    /\ NameAt(line, i, f)
    /\ v <= Len(line) /\ ~IsSpace(line[v])
    /\ \E e \in (i + Len(FieldNames[f]))..(v - 1) :
          /\ line[e] = Equals
          /\ \A k \in ((i + Len(FieldNames[f]))..(v - 1)) \ {e} : IsSpace(line[k])

\* the occurrences of field=value in line: <<position, field, position of
\* the value>>
Occurrences(line) ==
    {o \in (1..Len(line)) \X (DOMAIN FieldNames) \X (1..Len(line)) :
        ValueAt(line, o[1], o[2], o[3])}

\* the last position of the whitespace-free value that starts at v
ValueEnd(line, v) ==
    CHOOSE z \in v..Len(line) :
        /\ \A k \in v..z : ~IsSpace(line[k])
        /\ z = Len(line) \/ IsSpace(line[z + 1])

ValueOf(line, o) == SubSeq(line, o[3], ValueEnd(line, o[3]))

\* the snapshot of the claim: the fields that occur, each with the value
\* of its last occurrence
LastValues(line) ==
    LET occ == Occurrences(line)
    IN  [f \in {o[2] : o \in occ} |->
            ValueOf(line, CHOOSE o \in occ :
                              /\ o[2] = f
                              /\ \A q \in occ : q[2] = f => q[1] <= o[1])]

\* an occurrence begins inside an earlier one (inside its value)
Nested(line) ==
    \E o, q \in Occurrences(line) :
        o[1] < q[1] /\ q[1] <= ValueEnd(line, o[3])

\* C13 as stated: for every line, parse_progress returns exactly the fields
\* that occur in the line as field=value, each with the value of its last
\* occurrence, and None (the empty mapping) exactly when none occurs.
C13_ExactlyFieldsPresent ==
    ppc = "done" => psnap = LastValues(pline)

\* C13 amended: parse_progress returns None exactly when the line holds no
\* field=value; every field of the snapshot occurs in the line and has the
\* value of one of its occurrences; and for a line in which no occurrence
\* begins inside the value of an earlier one the snapshot is exactly the
\* fields that occur, each with the value of its last occurrence.
C13_FieldsOfTheScan ==
    ppc = "done" =>
        /\ psnap = NoProgress <=> Occurrences(pline) = {}
        /\ \A f \in DOMAIN psnap :
              \E o \in Occurrences(pline) :
                  o[2] = f /\ psnap[f] = ValueOf(pline, o)
        /\ ~Nested(pline) => psnap = LastValues(pline)

\* C13 witness: a line with two separate occurrences of one field was
\* parsed, and the later value was kept
C13_RepeatedFieldParsed ==
    /\ ppc = "done"
    /\ ~Nested(pline)
    /\ \E o, q \in Occurrences(pline) :
          /\ o[2] = q[2] /\ o[1] < q[1]
          /\ ValueOf(pline, o) # ValueOf(pline, q)
          /\ psnap[q[2]] = ValueOf(pline, q)

\* C14: within one job no two msg.edit calls are in flight at the same
\* time: while an edit of the runner (the announcement, the success or the
\* failure report) is awaited, no progress edit of the job's reader is.
C14_NoOverlappingEdits ==
    \A r \in Runners :
        rpc[r] \in {"announce", "success_edit", "fail_edit"} => rdpc[r] # "edit"

\* C15: once the process of a job has exited, by itself or by terminate(),
\* the reader and the waiter eventually complete and the runner eventually
\* resolves the job: the entry is gone and the call has returned the output
\* name or False.
C15_TerminatedJobResolves ==
    \A r \in Runners :
        (pstate[r] = "exited") ~>
            /\ rdpc[r] = "done" /\ wdone[r]
            /\ job_id[r] \notin DOMAIN running_jobs
            /\ rpc[r] = "returned"

\* C16: after a progress edit of its reader has raised, the reader goes on
\* to the end of the stream and every later line of the stream is
\* processed: when it is done the stream is at its end and no complete
\* line is left unsplit in data.
C16_AllLaterLinesProcessed ==
    \A r \in Runners :
        (editFailed[r] /\ rdpc[r] = "done") =>
            /\ seof[r] /\ sbuf[r] = <<>> /\ parts[r] = <<>>
            /\ \A k \in 1..Len(data[r]) : ~IsDelim(data[r][k])

\* the argument that follows the flag in argv (<<>> if the flag is absent)
ArgOf(flag) ==
    LET at == {i \in 1..(Len(argv) - 1) : argv[i] = <<flag>>}
    IN  IF at = {} THEN <<>> ELSE argv[1 + CHOOSE i \in at : TRUE]

\* the -vf argument holds a filter of this name
HasFilter(name) == \E i \in 1..Len(ArgOf("-vf")) : ArgOf("-vf")[i] = name

\* the value of the filter of this name in the -vf argument
FilterValue(name) ==
    ArgOf("-vf")[1 + CHOOSE i \in 1..Len(ArgOf("-vf")) : ArgOf("-vf")[i] = name]

\* C17 as stated: the subtitles filter is always there, and a setting absent
\* from the user's configuration leaves its filter or flag (scale, fps,
\* -c:v, -crf, -preset) out of the arguments.
C17_AbsentSettingOmitted ==
    apc = "done" =>
        /\ HasFilter("subtitles=")
        /\ "resolution" \notin DOMAIN cfg => ~HasFilter("scale=")
        /\ "fps" \notin DOMAIN cfg => ~HasFilter("fps=")
        /\ "codec" \notin DOMAIN cfg => ArgOf("-c:v") = <<>>
        /\ "crf" \notin DOMAIN cfg => ArgOf("-crf") = <<>>
        /\ "preset" \notin DOMAIN cfg => ArgOf("-preset") = <<>>

\* C17 amended: the subtitles filter is always there and comes first; only
\* the frame rate defaults to 'original', which leaves the fps filter out;
\* an absent resolution is 1920:1080 and is applied by a scale filter, which
\* only a stored 'original' leaves out; -c:v, -crf and -preset are always
\* given, with the stored value or else libx264, 27 and faster.
C17_DefaultsOfSettings ==
    apc = "done" =>
        /\ ArgOf("-vf")[1] = "subtitles="
        /\ IF "resolution" \in DOMAIN cfg
           THEN IF cfg.resolution = "original" THEN ~HasFilter("scale=")
                ELSE HasFilter("scale=") /\ FilterValue("scale=") = cfg.resolution
           ELSE HasFilter("scale=") /\ FilterValue("scale=") = "1920:1080"
        /\ IF "fps" \in DOMAIN cfg /\ cfg.fps # "original"
           THEN HasFilter("fps=") /\ FilterValue("fps=") = cfg.fps
           ELSE ~HasFilter("fps=")
        /\ ArgOf("-c:v") =
              <<IF "codec" \in DOMAIN cfg THEN cfg.codec ELSE "libx264">>
        /\ ArgOf("-crf") = <<IF "crf" \in DOMAIN cfg THEN cfg.crf ELSE "27">>
        /\ ArgOf("-preset") =
              <<IF "preset" \in DOMAIN cfg THEN cfg.preset ELSE "faster">>

\* C17 witness: the arguments were built for a user who has stored nothing
C17_BuiltFromEmptySettings ==
    apc = "done" /\ DOMAIN cfg = {} /\ HasFilter("scale=")

\* C18: when the reader has completed, the stderr stream is at its end with
\* nothing buffered, so the read after a non-zero exit returns no bytes and
\* the failure report shows an empty detail.
C18_NothingLeftToRead ==
    \A r \in Runners :
        /\ rdpc[r] = "done" => (seof[r] /\ sbuf[r] = <<>>)
        /\ FailureReported(r) => err[r] = <<>>

\* C18 witness: a failure report is in flight for a process that left
\* unread stderr output when it exited
C18_FailureAfterUnreadOutput ==
    \E r \in Runners : rpc[r] = "fail_edit" /\ remainAtExit[r] # <<>>

\* a msg.edit was called for the job of r: the announcement (the runner is
\* at or past it) or a progress edit
NotifierCalled(r) ==
    \/ rpc[r] \in {"announce", "wait", "success_edit", "sleep", "read_err",
                   "fail_edit", "returned"}
    \/ rpc[r] = "raised" /\ result[r].val # <<"spawn">>
    \/ rdpc[r] = "edit"

\* C19: whenever a msg.edit was called for a job, or its reader has begun
\* to run, the job has been registered: the identifier is drawn and, until
\* the runner's own pop, a lookup of it finds the job's entry.
C19_RegisteredBeforeNotified ==
    \A r \in Runners :
        (NotifierCalled(r) \/ rdpc[r] # "none") =>
            /\ job_id[r] # ""
            /\ PastJoin(r) \/ FindsOwn(r)

\* C19 witness: the reader handles a line while the announcement is still
\* in flight, and the job is registered
C19_ReaderRunsRegistered ==
    \E r \in Runners :
        rpc[r] = "announce" /\ rdpc[r] = "line" /\ FindsOwn(r)

\* the final report was issued: the success or failure msg.edit was called
FinalReportIssued(r) ==
    \/ rpc[r] \in {"success_edit", "sleep", "fail_edit", "returned"}
    \/ rpc[r] = "raised" /\ result[r].val \in {<<"success">>, <<"failure">>}

\* C20: from the moment the final report is issued, both activities of the
\* job have completed and its entry is gone: the reader is done for good,
\* so no progress edit is in flight with the final report or follows it.
C20_FinalReportIsLast ==
    \A r \in Runners :
        FinalReportIssued(r) =>
            /\ rdpc[r] = "done" /\ wdone[r]
            /\ job_id[r] \notin DOMAIN running_jobs

\* C20 witness: the failure report is in flight for a job that had a
\* progress edit before
C20_ReportAfterProgressEdit ==
    \E r \in Runners : rpc[r] = "fail_edit" /\ editFailed[r]

====
